---- MODULE Spec2Model ----
(***************************************************************************)
(* Order-management REST service (src/src/app.py): three tables            *)
(* (customer, order, item) behind nine Flask endpoints.  Each endpoint is  *)
(* one action; the relational store's constraints (UNIQUE on               *)
(* customer.email / customer.phone, NOT NULL on order.customer_id) are     *)
(* part of the commit every writing endpoint ends with.                    *)
(***************************************************************************)
EXTENDS Integers, Sequences, FiniteSets, TLC

VARIABLES customers, orders, items,          \* the three tables: id -> row
          customerSeq, orderSeq, itemSeq,    \* next autoincrement primary keys
          resp,                              \* last request and its HTTP response
          pre,                               \* the tables as the last request found them
          created,                           \* history: order id -> successful create_item calls
          inflight                           \* worker -> the request it has read for, not yet committed

vars == <<customers, orders, items, customerSeq, orderSeq, itemSeq, resp, pre, created,
          inflight>>

(* Bound on the number of rows a run inserts, over the three tables. *)
MaxRows == 4

(* ---------------------------------------------------------------------- *)
(* JSON bodies.  A customer body is a record over the schema's fields; a   *)
(* field the request does not carry holds Absent.                          *)
(* ---------------------------------------------------------------------- *)
Absent == "<absent>"
NULL == 0

CustomerColumns == {"name", "email", "phone", "address", "nationality"}

Names == {"Al", "Ana"}
Emails == {"nope", "a@x.com", "b@x.com"}
Phones == {"555", "5551234567", "5557654321"}
Addresses == {"Main St"}
Nationalities == {"MX"}

(* The values a body may carry under each key. *)
JsonValues ==
    [name |-> Names \cup {Absent}, email |-> Emails \cup {Absent},
     phone |-> Phones \cup {Absent}, address |-> Addresses \cup {Absent},
     nationality |-> Nationalities \cup {Absent}, id |-> {"9", Absent},
     orders |-> {"[]", Absent}]

CustomerJson ==
    [name : JsonValues.name, email : JsonValues.email, phone : JsonValues.phone,
     address : JsonValues.address, nationality : JsonValues.nationality,
     id : JsonValues.id, orders : JsonValues.orders]

Supplied(json) == {f \in DOMAIN json : json[f] # Absent}

(* validate.Email: the addresses of Emails the validator's pattern accepts. *)
EmailFormat(v) == v \in {"a@x.com", "b@x.com", "c@x.com"}

(* CustomerSchema: the fields whose validation fails on load; a key that   *)
(* Meta.fields does not list is an unknown field.                          *)
CustomerSchema(json, partial) ==
    {f \in CustomerColumns :
        IF json[f] = Absent
        THEN f # "email" /\ ~partial
        ELSE \/ f = "name" /\ Len(json[f]) < 3
             \/ f = "email" /\ ~EmailFormat(json[f])
             \/ f = "phone" /\ Len(json[f]) < 10}
    \cup {f \in DOMAIN json \ (CustomerColumns \cup {"id"}) : json[f] # Absent}

(* Two complete registrations, and the body that supplies nothing. *)
AnaCruz ==
    [name |-> "Ana", email |-> "a@x.com", phone |-> "5551234567",
     address |-> "Main St", nationality |-> "MX", id |-> Absent, orders |-> Absent]
BenDiaz == [AnaCruz EXCEPT !.email = "b@x.com", !.phone = "5557654321"]
Blank == [f \in DOMAIN AnaCruz |-> Absent]

(* The bodies that differ from base in at most one of the fields. *)
OneOff(base, fields) ==
    {base} \cup UNION {{[base EXCEPT ![f] = v] : v \in JsonValues[f]} : f \in fields}

(* Request bodies of the registry clients: every registration with at most *)
(* one field missing or malformed, every update of at most one field.      *)
RegistryPost ==
    UNION {OneOff(base, CustomerColumns) :
              base \in {j \in [name : Names, email : Emails, phone : Phones,
                                address : Addresses, nationality : Nationalities,
                                id : {Absent}, orders : {Absent}] :
                           CustomerSchema(j, FALSE) = {}}}
RegistryPut ==
    OneOff(Blank, DOMAIN Blank)
        \cup {[Blank EXCEPT !.email = "b@x.com", !.phone = "5557654321"],
              [Blank EXCEPT !.id = "9", !.email = "c@x.com"]}

(* Request bodies of the ordering clients. *)
OrderingPost == {AnaCruz, BenDiaz, [AnaCruz EXCEPT !.email = Absent]}
OrderingPut ==
    {[Blank EXCEPT !.email = "a@x.com"], [Blank EXCEPT !.email = "b@x.com"],
     [Blank EXCEPT !.orders = "[]"]}

(* ---------------------------------------------------------------------- *)
(* The store.                                                              *)
(* ---------------------------------------------------------------------- *)
CustomerPhoneFirst(id, name, email, phone, address, nationality) ==
    [id |-> id, name |-> name, email |-> phone, phone |-> email,
     address |-> address, nationality |-> nationality]
(* Customer.__init__ *)
Customer(id, name, email, phone, address, nationality) ==
    [id |-> id, name |-> name, email |-> email, phone |-> phone,
     address |-> address, nationality |-> nationality]

UniqueEmailOnly(cs) ==
    \A a, b \in DOMAIN cs : a # b => cs[a].email # cs[b].email
(* unique=True on Customer.email and Customer.phone *)
UniqueColumns(cs) ==
    \A a, b \in DOMAIN cs :
        a # b => cs[a].email # cs[b].email /\ cs[a].phone # cs[b].phone

NullableColumns(os) == TRUE
(* nullable=False on Order.customer_id *)
NotNullColumns(os) == \A o \in DOMAIN os : os[o].customer_id # NULL

(* db.session.commit(): the flush is rejected (IntegrityError) unless the  *)
(* tables it would leave satisfy the constraints.                          *)
IntegrityError(cs, os) == ~(UniqueColumns(cs) /\ NotNullColumns(os))

(* Rows inserted so far. *)
Rows == (customerSeq - 1) + (orderSeq - 1) + (itemSeq - 1)

Tables == [customers |-> customers, orders |-> orders, items |-> items]

Reply(op, id, req, status, error, body) ==
    /\ resp' = [op |-> op, id |-> id, req |-> req, status |-> status,
                error |-> error, body |-> body]
    /\ pre' = Tables

(* The response of a handler that ran from its first line to its return. *)
Response(op, id, req, status, error, body) ==
    /\ Reply(op, id, req, status, error, body)
    /\ UNCHANGED inflight

NoWrite == UNCHANGED <<customers, orders, items, customerSeq, orderSeq, itemSeq, created>>

BadRequest(op, id, req, error) ==
    /\ Response(op, id, req, 400, error, NULL)
    /\ NoWrite

(* An exception no handler catches: Flask answers 500. *)
Unhandled(op, id, req, exception) ==
    /\ Response(op, id, req, 500, exception, NULL)
    /\ NoWrite

Without(table, id) == [k \in DOMAIN table \ {id} |-> table[k]]
With(table, id, row) == [k \in DOMAIN table \cup {id} |-> IF k = id THEN row ELSE table[k]]

(* ---------------------------------------------------------------------- *)
(* Endpoints: customers.                                                   *)
(* ---------------------------------------------------------------------- *)
(* Customer.query.filter(Customer.email == ...).first() is not None *)
EmailTaken(json) == \E c \in DOMAIN customers : customers[c].email = json.email

PhoneTakenAmongEmails(json) == \E c \in DOMAIN customers : customers[c].email = json.phone
(* Customer.query.filter(Customer.phone == ...).first() is not None *)
PhoneTaken(json) == \E c \in DOMAIN customers : customers[c].phone = json.phone

create_customer(json) ==
    IF CustomerSchema(json, FALSE) # {}
    THEN BadRequest("create_customer", NULL, json, "ValidationError")
    ELSE IF json.email = Absent
    THEN Unhandled("create_customer", NULL, json, "KeyError")
    ELSE IF EmailTaken(json)
    THEN BadRequest("create_customer", NULL, json, "ConflictError")
    ELSE IF PhoneTaken(json)
    THEN BadRequest("create_customer", NULL, json, "ConflictError")
    ELSE LET new_customer == Customer(customerSeq, json.name, json.email, json.phone,
                                      json.address, json.nationality)
             added == With(customers, customerSeq, new_customer)
         IN  /\ Rows < MaxRows
             /\ IF IntegrityError(added, orders)
                THEN Unhandled("create_customer", NULL, json, "IntegrityError")
                ELSE /\ customers' = added
                     /\ customerSeq' = customerSeq + 1
                     /\ Response("create_customer", NULL, json, 200, "none", new_customer)
                     /\ UNCHANGED <<orders, items, orderSeq, itemSeq, created>>

RECURSIVE Ascending(_, _)
Ascending(table, ids) ==
    IF ids = {} THEN <<>>
    ELSE LET least == CHOOSE i \in ids : \A j \in ids : i <= j
         IN  <<table[least]>> \o Ascending(table, ids \ {least})

get_customers ==
    /\ Response("get_customers", NULL, NULL, 200, "none",
                Ascending(customers, DOMAIN customers))
    /\ NoWrite

PatchedButPhone(customer, json) ==
    [attr \in DOMAIN customer |->
        IF attr \notin {"id", "phone"} /\ json[attr] # Absent THEN json[attr] ELSE customer[attr]]
(* for attr, val in request.json.items(): if not attr == 'id': setattr(...) *)
Patched(customer, json) ==
    [attr \in DOMAIN customer |->
        IF attr # "id" /\ json[attr] # Absent THEN json[attr] ELSE customer[attr]]

update_customer(id, json) ==
    IF id \notin DOMAIN customers
    THEN BadRequest("update_customer", id, json, "NotFoundError")
    ELSE IF CustomerSchema(json, TRUE) # {}
    THEN BadRequest("update_customer", id, json, "ValidationError")
    ELSE LET customer == Patched(customers[id], json)
             updated == With(customers, id, customer)
         IN  IF IntegrityError(updated, orders)
             THEN Unhandled("update_customer", id, json, "IntegrityError")
             ELSE /\ customers' = updated
                  /\ Response("update_customer", id, json, 200, "none", customer)
                  /\ UNCHANGED <<orders, items, customerSeq, orderSeq, itemSeq, created>>

delete_customer(id) ==
    IF id \notin DOMAIN customers
    THEN BadRequest("delete_customer", id, NULL, "NotFoundError")
    ELSE LET customer == customers[id]
             \* the orders relationship has no delete cascade: the flush first
             \* sets customer_id of the customer's orders to NULL
             orphaned == [o \in DOMAIN orders |->
                             IF orders[o].customer_id = id
                             THEN [orders[o] EXCEPT !.customer_id = NULL]
                             ELSE orders[o]]
         IN  IF IntegrityError(Without(customers, id), orphaned)
             THEN Unhandled("delete_customer", id, NULL, "IntegrityError")
             ELSE /\ customers' = Without(customers, id)
                  /\ orders' = orphaned
                  /\ Response("delete_customer", id, NULL, 200, "none", customer)
                  /\ UNCHANGED <<items, customerSeq, orderSeq, itemSeq, created>>

(* ---------------------------------------------------------------------- *)
(* Endpoints: orders and items.                                            *)
(* ---------------------------------------------------------------------- *)
OrderJson ==
    {[date |-> "2024-01-10", state |-> Absent], [date |-> "2024-01-10", state |-> "Aprobada"],
     [date |-> "10/01/2024", state |-> Absent], [date |-> Absent, state |-> "Anulada"]}

(* fields.Date(format='%Y-%m-%d'): the texts of Dates the format parses. *)
DateFormat(v) == v \in {"2024-01-10"}

(* OrderSchema: the fields whose validation fails on load. *)
OrderSchema(json) ==
    {f \in {"date"} : json[f] = Absent \/ ~DateFormat(json[f])}

Order(id, customer_id, date, state) ==
    [id |-> id, customer_id |-> customer_id, date |-> date, state |-> state]

(* order_schema.dump: the order with its customer nested. *)
OrderDump(order, cs) ==
    [id |-> order.id, customer_id |-> order.customer_id, date |-> order.date,
     state |-> order.state, customer |-> cs[order.customer_id]]

NewOrderAsRequested(id, json) ==
    Order(orderSeq, id, json.date, IF json.state # Absent THEN json.state ELSE "Solicitada")
(* customer_id = id; date = request.json['date']; state = "Solicitada" *)
NewOrder(id, json) == Order(orderSeq, id, json.date, "Solicitada")

create_order(id, json) ==
    IF id \notin DOMAIN customers
    THEN BadRequest("create_order", id, json, "NotFoundError")
    ELSE IF OrderSchema(json) # {}
    THEN BadRequest("create_order", id, json, "ValidationError")
    ELSE LET new_order == NewOrder(id, json)
             added == With(orders, orderSeq, new_order)
         IN  /\ Rows < MaxRows
             /\ IF IntegrityError(customers, added)
                THEN Unhandled("create_order", id, json, "IntegrityError")
                ELSE /\ orders' = added
                     /\ orderSeq' = orderSeq + 1
                     /\ created' = With(created, orderSeq, <<>>)
                     /\ Response("create_order", id, json, 200, "none",
                                 OrderDump(new_order, customers))
                     /\ UNCHANGED <<customers, items, customerSeq, itemSeq>>

get_orders ==
    /\ Response("get_orders", NULL, NULL, 200, "none",
                Ascending([o \in DOMAIN orders |-> OrderDump(orders[o], customers)],
                          DOMAIN orders))
    /\ NoWrite

Switches == {"0", "1", "2"}

SwitchReopens(sw) ==
    IF sw = "1" THEN "Aprobada" ELSE IF sw = "0" THEN "Solicitada" ELSE "param error"
SwitchOnOff(sw) == IF sw = "1" THEN "Aprobada" ELSE "Anulada"
(* if sw == "1" ... elif sw == "0" ... else: param error *)
Switch(sw) ==
    IF sw = "1" THEN "Aprobada" ELSE IF sw = "0" THEN "Anulada" ELSE "param error"

update_order(id, sw) ==
    IF id \notin DOMAIN orders
    THEN BadRequest("update_order", id, sw, "NotFoundError")
    ELSE IF Switch(sw) = "param error"
    THEN BadRequest("update_order", id, sw, "InvalidParameterError")
    ELSE LET order == [orders[id] EXCEPT !.state = Switch(sw)]
             updated == With(orders, id, order)
         IN  IF IntegrityError(customers, updated)
             THEN Unhandled("update_order", id, sw, "IntegrityError")
             ELSE /\ orders' = updated
                  /\ Response("update_order", id, sw, 200, "none",
                              OrderDump(order, customers))
                  /\ UNCHANGED <<customers, items, customerSeq, orderSeq, itemSeq, created>>

(* A JSON value of an item body: a number, a text, or no value at all. *)
Number(n) == <<"number", n>>
Text(t) == <<"string", t>>
Missing == <<"absent">>

ItemJson ==
    {[width |-> Number(2), length |-> Number(3)],
     [width |-> Missing, length |-> Number(3)],
     [width |-> Number(2), length |-> Missing],
     [width |-> Text("wide"), length |-> Number(3)],
     [width |-> Number(-1), length |-> Number(0)]}

(* ItemSchema: the fields whose validation fails on load (fields.Float). *)
ItemSchema(json) ==
    {f \in {"width", "length"} : json[f][1] # "number"}

Item(id, order_id, width, length) ==
    [id |-> id, order_id |-> order_id, width |-> width, length |-> length]

(* item_schema.dump: the item with its order (and the order's customer) nested. *)
ItemDump(item, os, cs) ==
    [id |-> item.id, order_id |-> item.order_id, width |-> item.width,
     length |-> item.length, order |-> OrderDump(os[item.order_id], cs)]

ClosedWhenRejected(order) == order.state = "Anulada"
(* if order.state != "Solicitada": you cannot add items *)
Closed(order) == order.state # "Solicitada"

(* The lookup of the order made after the body's validation. *)
create_item_validating_first(id, json) ==
    IF {f \in {"width", "length"} : json[f][1] # "number"} # {}
    THEN BadRequest("create_item", id, json, "ValidationError")
    ELSE IF id \notin DOMAIN orders
    THEN BadRequest("create_item", id, json, "NotFoundError")
    ELSE IF orders[id].state # "Solicitada"
    THEN BadRequest("create_item", id, json, "InvalidStateError")
    ELSE LET new_item == Item(itemSeq, id, json.width[2], json.length[2])
         IN  /\ Rows < MaxRows
             /\ items' = With(items, itemSeq, new_item)
             /\ itemSeq' = itemSeq + 1
             /\ created' = [created EXCEPT ![id] = Append(@, orders[id].state)]
             /\ Response("create_item", id, json, 200, "none",
                         ItemDump(new_item, orders, customers))
             /\ UNCHANGED <<customers, orders, customerSeq, orderSeq>>

create_item(id, json) ==
    IF id \notin DOMAIN orders
    THEN BadRequest("create_item", id, json, "NotFoundError")
    ELSE IF ItemSchema(json) # {}
    THEN BadRequest("create_item", id, json, "ValidationError")
    ELSE IF Closed(orders[id])
    THEN BadRequest("create_item", id, json, "InvalidStateError")
    ELSE LET order_id == id
             width == json.width[2]
             length == json.length[2]
             new_item == Item(itemSeq, order_id, width, length)
         IN  /\ Rows < MaxRows
             /\ IF IntegrityError(customers, orders)
                THEN Unhandled("create_item", id, json, "IntegrityError")
                ELSE /\ items' = With(items, itemSeq, new_item)
                     /\ itemSeq' = itemSeq + 1
                     /\ created' = [created EXCEPT ![id] = Append(@, orders[id].state)]
                     /\ Response("create_item", id, json, 200, "none",
                                 ItemDump(new_item, orders, customers))
                     /\ UNCHANGED <<customers, orders, customerSeq, orderSeq>>

EveryItem(id) == DOMAIN items
(* Order.items: the rows of item whose order_id is the order's id. *)
OrderItems(id) == {i \in DOMAIN items : items[i].order_id = id}

(* orderItems_schema.dump: the order with its items nested, no customer. *)
OrderItemsDump(id) ==
    [id |-> orders[id].id, customer_id |-> orders[id].customer_id,
     date |-> orders[id].date, state |-> orders[id].state,
     items |-> Ascending([i \in OrderItems(id) |-> ItemDump(items[i], orders, customers)],
                         OrderItems(id))]

get_order(id) ==
    IF id \notin DOMAIN orders
    THEN BadRequest("get_order", id, NULL, "NotFoundError")
    ELSE /\ Response("get_order", id, NULL, 200, "none", OrderItemsDump(id))
         /\ NoWrite

(* ---------------------------------------------------------------------- *)
(* Concurrent requests.  The server handles requests in parallel workers,  *)
(* each with a session of its own: between the queries a handler makes and *)
(* its db.session.commit() the other worker's requests may commit.         *)
(* ---------------------------------------------------------------------- *)
Workers == {"w1", "w2"}
Idle == [op |-> "idle"]

Done(w) == inflight' = [inflight EXCEPT ![w] = Idle]

(* create_customer up to its two uniqueness queries (app.py:116-125). *)
create_customer_read(w, json) ==
    /\ inflight[w] = Idle
    /\ IF \/ CustomerSchema(json, FALSE) # {}
          \/ json.email = Absent
          \/ EmailTaken(json)
          \/ PhoneTaken(json)
       THEN create_customer(json)
       ELSE /\ inflight' = [inflight EXCEPT ![w] = [op |-> "create_customer", json |-> json]]
            /\ UNCHANGED <<customers, orders, items, customerSeq, orderSeq, itemSeq,
                           resp, pre, created>>

(* create_customer from the insert to the response (app.py:127-137). *)
create_customer_commit(w) ==
    /\ inflight[w].op = "create_customer"
    /\ LET json == inflight[w].json
           new_customer == Customer(customerSeq, json.name, json.email, json.phone,
                                    json.address, json.nationality)
           added == With(customers, customerSeq, new_customer)
       IN  /\ Rows < MaxRows
           /\ Done(w)
           /\ IF IntegrityError(added, orders)
              THEN /\ Reply("create_customer", NULL, json, 500, "IntegrityError", NULL)
                   /\ NoWrite
              ELSE /\ customers' = added
                   /\ customerSeq' = customerSeq + 1
                   /\ Reply("create_customer", NULL, json, 200, "none", new_customer)
                   /\ UNCHANGED <<orders, items, orderSeq, itemSeq, created>>

(* create_item up to its test of the order's state (app.py:221-231). *)
create_item_read(w, id, json) ==
    /\ inflight[w] = Idle
    /\ IF id \notin DOMAIN orders \/ ItemSchema(json) # {} \/ Closed(orders[id])
       THEN create_item(id, json)
       ELSE /\ inflight' = [inflight EXCEPT ![w] =
                                [op |-> "create_item", id |-> id, json |-> json]]
            /\ UNCHANGED <<customers, orders, items, customerSeq, orderSeq, itemSeq,
                           resp, pre, created>>

(* create_item from the insert to the response (app.py:233-239). *)
create_item_commit(w) ==
    /\ inflight[w].op = "create_item"
    /\ LET id == inflight[w].id
           json == inflight[w].json
           new_item == Item(itemSeq, id, json.width[2], json.length[2])
       IN  /\ Rows < MaxRows
           /\ Done(w)
           /\ IF IntegrityError(customers, orders)
              THEN /\ Reply("create_item", id, json, 500, "IntegrityError", NULL)
                   /\ NoWrite
              ELSE /\ items' = With(items, itemSeq, new_item)
                   /\ itemSeq' = itemSeq + 1
                   /\ created' = [created EXCEPT ![id] = Append(@, orders[id].state)]
                   /\ Reply("create_item", id, json, 200, "none",
                            ItemDump(new_item, orders, customers))
                   /\ UNCHANGED <<customers, orders, customerSeq, orderSeq>>

(* Request bodies of the concurrent clients: registrations that share the  *)
(* phone and differ in the email or not at all.                            *)
ConcurrentPost == {AnaCruz, [AnaCruz EXCEPT !.email = "b@x.com"]}
ConcurrentOrderJson == {[date |-> "2024-01-10", state |-> Absent]}
ConcurrentItemJson == {[width |-> Number(2), length |-> Number(3)]}

Init ==
    /\ customers = <<>>
    /\ orders = <<>>
    /\ items = <<>>
    /\ customerSeq = 1
    /\ orderSeq = 1
    /\ itemSeq = 1
    /\ resp = [op |-> "none", id |-> NULL, req |-> NULL, status |-> 200,
               error |-> "none", body |-> NULL]
    /\ pre = [customers |-> <<>>, orders |-> <<>>, items |-> <<>>]
    /\ created = <<>>
    /\ inflight = [w \in Workers |-> Idle]

(* The ids a request names: every row's, and one that names no row. *)
CustomerIds == DOMAIN customers \cup {customerSeq}
OrderIds == DOMAIN orders \cup {orderSeq}

Reads ==
    \/ get_customers
    \/ get_orders
    \/ \E id \in OrderIds : get_order(id)

Ordering ==
    \/ \E id \in CustomerIds, json \in OrderJson : create_order(id, json)
    \/ \E id \in OrderIds, sw \in Switches : update_order(id, sw)
    \/ \E id \in OrderIds, json \in ItemJson : create_item(id, json)

Next ==
    \/ \E json \in OrderingPost : create_customer(json)
    \/ \E id \in CustomerIds, json \in OrderingPut : update_customer(id, json)
    \/ \E id \in CustomerIds : delete_customer(id)
    \/ Ordering
    \/ Reads

Spec == Init /\ [][Next]_vars

NextRegistry ==
    \/ \E json \in RegistryPost : create_customer(json)
    \/ \E id \in CustomerIds, json \in RegistryPut : update_customer(id, json)
    \/ \E id \in CustomerIds : delete_customer(id)
    \/ \E id \in CustomerIds, json \in OrderJson : create_order(id, json)
    \/ get_customers

SpecRegistry == Init /\ [][NextRegistry]_vars

NextConcurrent ==
    \/ \E w \in Workers, json \in ConcurrentPost : create_customer_read(w, json)
    \/ \E w \in Workers : create_customer_commit(w)
    \/ \E id \in CustomerIds, json \in ConcurrentOrderJson : create_order(id, json)
    \/ \E id \in OrderIds, sw \in Switches : update_order(id, sw)
    \/ \E w \in Workers, id \in OrderIds, json \in ConcurrentItemJson :
          create_item_read(w, id, json)
    \/ \E w \in Workers : create_item_commit(w)

SpecConcurrent == Init /\ [][NextConcurrent]_vars

(* ---------------------------------------------------------------------- *)
(* Properties.  resp is the last request with its response, pre the tables *)
(* that request found.                                                     *)
(* ---------------------------------------------------------------------- *)
Terminal == {"Aprobada", "Anulada"}
Structured ==
    {"ValidationError", "ConflictError", "NotFoundError", "InvalidStateError",
     "InvalidParameterError"}

Failed(error) == resp.status = 400 /\ resp.error = error
Succeeded == resp.status = 200
Untouched == Tables = pre

NumericBody == resp.req.width[1] = "number" /\ resp.req.length[1] = "number"

(* C1: create_item on an existing order with a numeric width and length     *)
(* adds exactly one item, linked to that order, when the order is           *)
(* "Solicitada"; when the order is "Aprobada" or "Anulada" it fails with    *)
(* InvalidStateError and adds no item.                                      *)
C1_ItemsOnlyWhileRequested ==
    (resp.op = "create_item" /\ resp.id \in DOMAIN pre.orders /\ NumericBody) =>
        /\ pre.orders[resp.id].state = "Solicitada" =>
              /\ Succeeded
              /\ \E i \in DOMAIN items \ DOMAIN pre.items :
                    /\ DOMAIN items = DOMAIN pre.items \cup {i}
                    /\ items[i].order_id = resp.id
              /\ \A k \in DOMAIN pre.items : items[k] = pre.items[k]
        /\ pre.orders[resp.id].state \in Terminal =>
              /\ Failed("InvalidStateError")
              /\ items = pre.items

C1_Witness ==
    /\ resp.op = "create_item" /\ NumericBody
    /\ Failed("InvalidStateError")
    /\ resp.id \in DOMAIN orders /\ orders[resp.id].state = "Aprobada"
    /\ \E i \in DOMAIN items : items[i].order_id = resp.id

(* C2: an update_order call on an order that is already "Aprobada" or       *)
(* "Anulada" leaves that order's state as it was.                           *)
C2_TerminalStatesAreFinal ==
    (resp.op = "update_order" /\ resp.id \in DOMAIN pre.orders
        /\ pre.orders[resp.id].state \in Terminal) =>
        orders[resp.id].state = pre.orders[resp.id].state

(* C3: update_order on an existing order sets its state to "Aprobada" for   *)
(* decision "1" and to "Anulada" for decision "0"; any other decision fails *)
(* with InvalidParameterError and leaves all three tables as they were.     *)
C3_DecisionTokens ==
    (resp.op = "update_order" /\ resp.id \in DOMAIN pre.orders) =>
        /\ resp.req = "1" => Succeeded /\ orders[resp.id].state = "Aprobada"
        /\ resp.req = "0" => Succeeded /\ orders[resp.id].state = "Anulada"
        /\ resp.req \notin {"0", "1"} => Failed("InvalidParameterError") /\ Untouched

C3_Witness ==
    /\ resp.op = "update_order" /\ resp.req = "2"
    /\ Failed("InvalidParameterError")
    /\ \E o \in DOMAIN orders : orders[o].state = "Aprobada"
    /\ \E o \in DOMAIN orders : orders[o].state = "Anulada"

(* C4: a successful create_order stores exactly one new order, in state     *)
(* "Solicitada" and with the customer_id of the existing customer the call  *)
(* names, whatever state the body carries; no order enters the table in     *)
(* another state.                                                           *)
C4_OrdersStartRequested ==
    /\ \A o \in DOMAIN orders \ DOMAIN pre.orders : orders[o].state = "Solicitada"
    /\ (resp.op = "create_order" /\ Succeeded) =>
          /\ resp.id \in DOMAIN pre.customers
          /\ \E o \in DOMAIN orders \ DOMAIN pre.orders :
                /\ DOMAIN orders = DOMAIN pre.orders \cup {o}
                /\ orders[o].state = "Solicitada"
                /\ orders[o].customer_id = resp.id

C4_Witness ==
    /\ resp.op = "create_order" /\ Succeeded
    /\ resp.req.state = "Aprobada"
    /\ \E o \in DOMAIN orders \ DOMAIN pre.orders : orders[o].state = "Solicitada"

DuplicateRequest ==
    /\ resp.op = "create_customer"
    /\ \E c \in DOMAIN pre.customers :
          \/ resp.req.email # Absent /\ pre.customers[c].email = resp.req.email
          \/ resp.req.phone # Absent /\ pre.customers[c].phone = resp.req.phone

(* C5 as stated: create_customer with the email or the phone of a persisted *)
(* customer fails with ConflictError and persists no customer.              *)
C5_DuplicateIsConflict ==
    DuplicateRequest => Failed("ConflictError") /\ customers = pre.customers

WellFormedRegistration ==
    /\ \A f \in CustomerColumns : resp.req[f] # Absent
    /\ Len(resp.req.name) >= 3
    /\ Len(resp.req.phone) >= 10
    /\ resp.req.email \in {"a@x.com", "b@x.com"}

(* C5 amended: create_customer with the email or the phone of a persisted   *)
(* customer never succeeds and persists no customer; it fails with          *)
(* ConflictError when the body is a well-formed registration (all five      *)
(* fields, of valid shape).                                                 *)
C5_DuplicateNeverPersists ==
    DuplicateRequest =>
        /\ ~Succeeded
        /\ customers = pre.customers
        /\ WellFormedRegistration => Failed("ConflictError")

C5_Witness ==
    /\ DuplicateRequest /\ WellFormedRegistration
    /\ Failed("ConflictError")
    /\ \A c \in DOMAIN customers : customers[c].email # resp.req.email

(* C6: no two persisted customers share an email and no two share a phone,  *)
(* also after an update_customer that names a value another customer holds. *)
C6_UniqueEmailAndPhone ==
    \A a, b \in DOMAIN customers :
        a # b => /\ customers[a].email # customers[b].email
                 /\ customers[a].phone # customers[b].phone

C6_Witness ==
    /\ resp.op = "update_customer" /\ resp.id \in DOMAIN customers
    /\ \E c \in DOMAIN customers \ {resp.id} : customers[c].phone = resp.req.phone
    /\ resp.status = 500 /\ Untouched

(* C7: every call ends in success or in one of the five structured errors,  *)
(* reported as HTTP 400.                                                    *)
C7_OnlyStructuredErrors ==
    \/ Succeeded
    \/ resp.status = 400 /\ resp.error \in Structured

(* C8: create_customer without one of name, email, phone, address,          *)
(* nationality fails with ValidationError and persists no customer.         *)
C8_FiveFieldsRequired ==
    (resp.op = "create_customer" /\ \E f \in CustomerColumns : resp.req[f] = Absent) =>
        Failed("ValidationError") /\ customers = pre.customers

(* C9: a call whose id names no row of the addressed table fails with       *)
(* NotFoundError and leaves the three tables as they were.                  *)
C9_UnknownIdChangesNothing ==
    /\ (resp.op \in {"update_customer", "delete_customer", "create_order"}
           /\ resp.id \notin DOMAIN pre.customers) =>
          Failed("NotFoundError") /\ Untouched
    /\ (resp.op \in {"update_order", "create_item", "get_order"}
           /\ resp.id \notin DOMAIN pre.orders) =>
          Failed("NotFoundError") /\ Untouched

C9_Witness ==
    /\ resp.op = "create_item" /\ ~NumericBody
    /\ resp.id \notin DOMAIN orders
    /\ Failed("NotFoundError")
    /\ DOMAIN orders # {}

(* C10: for every persisted order, get_order returns as many items as       *)
(* create_item calls succeeded on that order, and each of those calls found *)
(* the order "Solicitada".                                                  *)
C10_ItemCountRoundTrip ==
    /\ \A o \in DOMAIN orders :
          /\ Len(OrderItemsDump(o).items) = Len(created[o])
          /\ \A k \in 1 .. Len(created[o]) : created[o][k] = "Solicitada"
    /\ (resp.op = "get_order" /\ Succeeded) =>
          Len(resp.body.items) = Len(created[resp.id])

C10_Witness ==
    /\ resp.op = "get_order" /\ Succeeded
    /\ Len(resp.body.items) = 1
    /\ Len(created[resp.id]) = 1
    /\ resp.body.state = "Anulada"
    /\ \E o \in DOMAIN orders \ {resp.id} : created[o] = <<>>

(* C11: delete_customer on an existing id removes that customer and returns *)
(* the record as it was, also when the customer owns orders.                *)
C11_DeleteRemovesAndReturns ==
    (resp.op = "delete_customer" /\ resp.id \in DOMAIN pre.customers) =>
        /\ Succeeded
        /\ resp.id \notin DOMAIN customers
        /\ resp.body = pre.customers[resp.id]

(* C14: every persisted item has a width and a length greater than zero.    *)
C14_PositiveDimensions ==
    \A i \in DOMAIN items : items[i].width > 0 /\ items[i].length > 0

(* C15: no request changes the customer_id or the date of a persisted       *)
(* order; the state of an order changes only in an update_order call that   *)
(* names its id; an update_order call leaves the other orders, the          *)
(* customers and the items as they were.                                    *)
C15_OrdersChangeOnlyByTransition ==
    /\ \A o \in DOMAIN pre.orders \cap DOMAIN orders :
          /\ orders[o].customer_id = pre.orders[o].customer_id
          /\ orders[o].date = pre.orders[o].date
          /\ orders[o].state # pre.orders[o].state =>
                resp.op = "update_order" /\ resp.id = o
    /\ resp.op = "update_order" =>
          /\ customers = pre.customers
          /\ items = pre.items
          /\ DOMAIN orders = DOMAIN pre.orders
          /\ \A o \in DOMAIN orders \ {resp.id} : orders[o] = pre.orders[o]

C15_Witness ==
    /\ resp.op = "update_order" /\ Succeeded
    /\ orders[resp.id].state # pre.orders[resp.id].state
    /\ \E o \in DOMAIN orders \ {resp.id} : orders[o].state = "Solicitada"
    /\ items # <<>>

(* C18: every persisted order names a persisted customer and every          *)
(* persisted item names a persisted order, delete_customer included.        *)
C18_ReferentialIntegrity ==
    /\ \A o \in DOMAIN orders : orders[o].customer_id \in DOMAIN customers
    /\ \A i \in DOMAIN items : items[i].order_id \in DOMAIN orders

C18_Witness ==
    /\ resp.op = "delete_customer" /\ resp.id \in DOMAIN customers
    /\ \E o \in DOMAIN orders : orders[o].customer_id = resp.id
    /\ \E c \in DOMAIN customers : \A o \in DOMAIN orders : orders[o].customer_id # c
    /\ items # <<>>
    /\ resp.status = 500 /\ Untouched

ItemsOf(table, o) == {table[i] : i \in {k \in DOMAIN table : table[k].order_id = o}}

(* C19: an order that a request finds in a state other than "Solicitada" is *)
(* not "Solicitada" after it, and has the same items, unmodified.           *)
C19_NoReopeningNoLateItems ==
    \A o \in DOMAIN pre.orders :
        pre.orders[o].state # "Solicitada" =>
            /\ o \in DOMAIN orders
            /\ orders[o].state # "Solicitada"
            /\ ItemsOf(items, o) = ItemsOf(pre.items, o)

C19_Witness ==
    /\ resp.op = "update_order" /\ Succeeded
    /\ pre.orders[resp.id].state = "Aprobada"
    /\ orders[resp.id].state = "Anulada"
    /\ ItemsOf(items, resp.id) # {}

(* C13: a successful create_customer gives the new customer an id that no   *)
(* persisted customer had, and stores and returns it with the supplied      *)
(* values; get_customers lists every persisted customer, so the one that    *)
(* follows a create_customer lists the new record.                          *)
C13_CreatedThenListed ==
    /\ (resp.op = "create_customer" /\ Succeeded) =>
          /\ resp.body.id \notin DOMAIN pre.customers
          /\ resp.body.id \in DOMAIN customers
          /\ customers[resp.body.id] = resp.body
          /\ \A f \in CustomerColumns : resp.body[f] = resp.req[f]
    /\ resp.op = "get_customers" =>
          /\ Succeeded
          /\ \A c \in DOMAIN customers :
                \E k \in 1 .. Len(resp.body) : resp.body[k] = customers[c]

C13_Witness ==
    /\ resp.op = "get_customers"
    /\ Len(resp.body) = 2
    /\ \E k \in 1 .. Len(resp.body) :
          /\ resp.body[k].id = customerSeq - 1
          /\ resp.body[k].id > 2
          /\ resp.body[k].email = "a@x.com"

(* C16: a successful update_customer gives each supplied field of the       *)
(* addressed customer the supplied value, leaves its other fields and its   *)
(* id as they were (a supplied id is ignored), and changes no other         *)
(* customer, no order and no item.                                          *)
C16_UpdateSetsSuppliedFieldsOnly ==
    (resp.op = "update_customer" /\ Succeeded) =>
        /\ resp.id \in DOMAIN pre.customers
        /\ DOMAIN customers = DOMAIN pre.customers
        /\ customers[resp.id].id = pre.customers[resp.id].id
        /\ \A f \in CustomerColumns :
              customers[resp.id][f] =
                  IF resp.req[f] # Absent THEN resp.req[f] ELSE pre.customers[resp.id][f]
        /\ \A c \in DOMAIN customers \ {resp.id} : customers[c] = pre.customers[c]
        /\ orders = pre.orders
        /\ items = pre.items

C16_Witness ==
    /\ resp.op = "update_customer" /\ Succeeded
    /\ resp.req.id # Absent
    /\ resp.req.email # Absent
    /\ customers[resp.id].email # pre.customers[resp.id].email
    /\ customers[resp.id].id = resp.id
    /\ DOMAIN customers # {resp.id}
    /\ orders # <<>>

(* C12: with the uniqueness queries and the commit of create_customer as    *)
(* separate steps of concurrent requests, no two persisted customers share  *)
(* an email or a phone: a commit that finds its email or phone in the table *)
(* is rejected and persists nothing.                                        *)
C12_ConcurrentRegistrationsStayUnique ==
    /\ \A a, b \in DOMAIN customers :
          a # b => /\ customers[a].email # customers[b].email
                   /\ customers[a].phone # customers[b].phone
    /\ (resp.op = "create_customer"
           /\ \E c \in DOMAIN pre.customers :
                 \/ pre.customers[c].email = resp.req.email
                 \/ pre.customers[c].phone = resp.req.phone) =>
          ~Succeeded /\ customers = pre.customers

C12_Witness ==
    /\ resp.op = "create_customer"
    /\ resp.error = "IntegrityError"
    /\ \E c \in DOMAIN customers : customers[c].email = resp.req.email
    /\ Cardinality(DOMAIN customers) = 1

(* C17: with the read of the order's state and the commit of create_item as *)
(* separate steps of a request that runs beside update_order requests,      *)
(* every item is committed to an order that is "Solicitada" at the commit.  *)
C17_NoItemCommittedToClosedOrder ==
    (resp.op = "create_item" /\ Succeeded) =>
        pre.orders[resp.id].state = "Solicitada"
====
